---- MODULE Spec2Model ----
(***************************************************************************)
(* Model of privacy_protector/guards.py: the four guard back ends'         *)
(* response parsers, their type-mapping tables and the get_guard factory.  *)
(*                                                                         *)
(* Python str values are sequences of one-character strings, so that       *)
(* str.lower, str.find, len and slicing are computed and not assumed.      *)
(* Floats with two decimals (the confidences) are integers in hundredths.  *)
(***************************************************************************)
EXTENDS Integers, Sequences, FiniteSets, TLC

VARIABLES
    pc,         \* "ready": inputs chosen, call not made; "done": call returned or raised
    call,       \* which operation the inputs of this behaviour are for
    self,       \* the guard object's fields that the operation reads
    text,       \* the original input text
    response,   \* the raw back-end payload handed to the parser
    type_str,   \* argument of the type-mapping functions
    provider,   \* argument of get_guard
    kwargs,     \* keyword arguments get_guard passes on to the constructor
    installed,  \* client libraries importable in this process
    imported,   \* client libraries whose import statement has run
    constructed,\* guard classes whose constructor get_guard has called
    result      \* outcome of the call: returned value or raised exception

vars == <<pc, call, self, text, response, type_str, provider, kwargs,
          installed, imported, constructed, result>>

-----------------------------------------------------------------------------
(* Bounds of the model                                                     *)

MaxTextLen == 3
MaxItems == 2
MaxNodes == 6
MaxResults == 1

SeqsUpTo(S, n) == UNION {[1..k -> S] : k \in 0..n}

-----------------------------------------------------------------------------
(* Python built-ins used by the module                                     *)

UpperCase ==
    <<"A", "B", "C", "D", "E", "F", "G", "H", "I", "J", "K", "L", "M",
      "N", "O", "P", "Q", "R", "S", "T", "U", "V", "W", "X", "Y", "Z">>

LowerCase ==
    <<"a", "b", "c", "d", "e", "f", "g", "h", "i", "j", "k", "l", "m",
      "n", "o", "p", "q", "r", "s", "t", "u", "v", "w", "x", "y", "z">>

char_lower(c) ==
    IF \E i \in 1..Len(UpperCase) : UpperCase[i] = c
    THEN LowerCase[CHOOSE i \in 1..Len(UpperCase) : UpperCase[i] = c]
    ELSE c

\* str.lower()
str_lower(s) == [i \in 1..Len(s) |-> char_lower(s[i])]

\* str.find(value): scan from the left, index of the first match or -1
RECURSIVE find_from(_, _, _)
find_from(t, value, i) ==
    IF i + Len(value) > Len(t) THEN -1
    ELSE IF SubSeq(t, i + 1, i + Len(value)) = value THEN i
    ELSE find_from(t, value, i + 1)

\* str.rfind(value): index of the last match or -1
str_rfind(t, value) ==
    IF \E i \in 0..Len(t) : i + Len(value) <= Len(t) /\ SubSeq(t, i + 1, i + Len(value)) = value
    THEN CHOOSE i \in 0..Len(t) :
            /\ i + Len(value) <= Len(t)
            /\ SubSeq(t, i + 1, i + Len(value)) = value
            /\ \A j \in (i + 1)..Len(t) :
                 ~(j + Len(value) <= Len(t) /\ SubSeq(t, j + 1, j + Len(value)) = value)
    ELSE -1

str_find(t, value) == find_from(t, value, 0)

\* dict.get(key, default) on a table written as a sequence of <<key, value>>
dict_get(table, key, default) ==
    IF \E i \in 1..Len(table) : table[i][1] = key
    THEN table[CHOOSE i \in 1..Len(table) : table[i][1] = key][2]
    ELSE default

dict_keys(table) == [i \in 1..Len(table) |-> table[i][1]]

-----------------------------------------------------------------------------
(* JSON values as the parsers see them after json.loads / response.json()  *)

\* a field of a JSON object: missing, null, a number or a string
Absent == [k |-> "absent", n |-> 0, s |-> <<>>]
Null == [k |-> "null", n |-> 0, s |-> <<>>]
Num(n) == [k |-> "num", n |-> n, s |-> <<>>]
Str(s) == [k |-> "str", n |-> 0, s |-> s]

\* field.get(key, default)
field_get(field, default) == IF field.k = "absent" THEN default ELSE field

\* an element of the PII list: a JSON object with the four fields, or a non-object
Item(t, v, s, e) == [k |-> "dict", type |-> t, value |-> v, start |-> s, end |-> e]
NonDictItem == [k |-> "int", type |-> Absent, value |-> Absent, start |-> Absent, end |-> Absent]

\* a value under a key of the top-level object
NoSlot == [k |-> "absent", items |-> <<>>]
NullSlot == [k |-> "null", items |-> <<>>]
ListSlot(items) == [k |-> "list", items |-> items]

\* the content string of a payload, described by what json.loads makes of it:
\*   "nonstr"  not a str at all (None)            -> json.loads raises TypeError
\*   "invalid" a str that is not JSON             -> json.loads raises JSONDecodeError
\*   "list", "dict", "str", "num", "null"         -> the JSON value it encodes
\* n is the number of characters of a JSON string, or of further keys of an object
Content(k, items, pii, results, n) ==
    [k |-> k, items |-> items, pii |-> pii, results |-> results, n |-> n]
ListContent(items) == Content("list", items, NoSlot, NoSlot, 0)
DictContent(pii, results, n) == Content("dict", <<>>, pii, results, n)
ScalarContent(k, n) == Content(k, <<>>, NoSlot, NoSlot, n)

json_loads(content) ==
    CASE content.k = "nonstr" -> [exc |-> "TypeError", val |-> content]
      [] content.k = "invalid" -> [exc |-> "JSONDecodeError", val |-> content]
      [] OTHER -> [exc |-> "none", val |-> content]

-----------------------------------------------------------------------------
(* detectors.PIIType and detectors.PIIMatch, GuardResult                    *)

PIIType ==
    {"NAME", "EMAIL", "PHONE", "ADDRESS", "SSN", "CREDIT_CARD", "DATE",
     "IP_ADDRESS", "DRIVER_LICENSE", "PASSPORT", "BANK_ACCOUNT", "CUSTOM"}

PIIMatch(pii_type, value, start, end, confidence) ==
    [pii_type |-> pii_type, value |-> value, start |-> start, end |-> end,
     confidence |-> confidence]

GuardResult(matches, raw_response, model_used) ==
    [matches |-> matches, raw_response |-> raw_response, model_used |-> model_used]

None == [k |-> "None"]

\* how a call ends
Return(v) == [raised |-> "none", value |-> v]
Raise(e) == [raised |-> e, value |-> None]

\* how the body of one loop iteration ends
Emit(m) == [exc |-> "none", emit |-> TRUE, match |-> m]
Skip == [exc |-> "none", emit |-> FALSE, match |-> None]
Throw(e) == [exc |-> e, emit |-> FALSE, match |-> None]

-----------------------------------------------------------------------------
(* The four type-mapping tables and their lookup functions                  *)

LlamaGuard_type_map ==
    <<
      <<<<"n", "a", "m", "e">>, "NAME">>,
      <<<<"e", "m", "a", "i", "l">>, "EMAIL">>,
      <<<<"p", "h", "o", "n", "e">>, "PHONE">>,
      <<<<"a", "d", "d", "r", "e", "s", "s">>, "ADDRESS">>,
      <<<<"s", "s", "n">>, "SSN">>,
      <<<<"s", "o", "c", "i", "a", "l", "_", "s", "e", "c", "u", "r", "i", "t", "y">>, "SSN">>,
      <<<<"c", "r", "e", "d", "i", "t", "_", "c", "a", "r", "d">>, "CREDIT_CARD">>,
      <<<<"d", "a", "t", "e">>, "DATE">>,
      <<<<"d", "a", "t", "e", "_", "o", "f", "_", "b", "i", "r", "t", "h">>, "DATE">>,
      <<<<"d", "o", "b">>, "DATE">>,
      <<<<"i", "p">>, "IP_ADDRESS">>,
      <<<<"i", "p", "_", "a", "d", "d", "r", "e", "s", "s">>, "IP_ADDRESS">>
    >>

\* lookup without lower-casing
LlamaGuard_map_type_exact(s) == dict_get(LlamaGuard_type_map, s, "CUSTOM")

\* LlamaGuard._map_type: type_map.get(type_str.lower(), PIIType.CUSTOM)
LlamaGuard_map_type(s) == dict_get(LlamaGuard_type_map, str_lower(s), "CUSTOM")

BedrockGuard_type_map ==
    <<
      <<<<"N", "A", "M", "E">>, "NAME">>,
      <<<<"E", "M", "A", "I", "L">>, "EMAIL">>,
      <<<<"P", "H", "O", "N", "E">>, "PHONE">>,
      <<<<"A", "D", "D", "R", "E", "S", "S">>, "ADDRESS">>,
      <<<<"S", "S", "N">>, "SSN">>,
      <<<<"U", "S", "_", "S", "O", "C", "I", "A", "L", "_", "S", "E", "C", "U", "R", "I", "T", "Y", "_", "N", "U", "M", "B", "E", "R">>, "SSN">>,
      <<<<"C", "R", "E", "D", "I", "T", "_", "D", "E", "B", "I", "T", "_", "N", "U", "M", "B", "E", "R">>, "CREDIT_CARD">>,
      <<<<"I", "P", "_", "A", "D", "D", "R", "E", "S", "S">>, "IP_ADDRESS">>,
      <<<<"D", "A", "T", "E", "_", "T", "I", "M", "E">>, "DATE">>,
      <<<<"D", "R", "I", "V", "E", "R", "_", "I", "D">>, "DRIVER_LICENSE">>,
      <<<<"P", "A", "S", "S", "P", "O", "R", "T", "_", "N", "U", "M", "B", "E", "R">>, "PASSPORT">>,
      <<<<"B", "A", "N", "K", "_", "A", "C", "C", "O", "U", "N", "T", "_", "N", "U", "M", "B", "E", "R">>, "BANK_ACCOUNT">>
    >>

\* BedrockGuard._map_bedrock_type: type_map.get(bedrock_type, PIIType.CUSTOM)
BedrockGuard_map_bedrock_type(s) == dict_get(BedrockGuard_type_map, s, "CUSTOM")

PresidioGuard_type_map ==
    <<
      <<<<"P", "E", "R", "S", "O", "N">>, "NAME">>,
      <<<<"E", "M", "A", "I", "L", "_", "A", "D", "D", "R", "E", "S", "S">>, "EMAIL">>,
      <<<<"P", "H", "O", "N", "E", "_", "N", "U", "M", "B", "E", "R">>, "PHONE">>,
      <<<<"L", "O", "C", "A", "T", "I", "O", "N">>, "ADDRESS">>,
      <<<<"U", "S", "_", "S", "S", "N">>, "SSN">>,
      <<<<"C", "R", "E", "D", "I", "T", "_", "C", "A", "R", "D">>, "CREDIT_CARD">>,
      <<<<"I", "P", "_", "A", "D", "D", "R", "E", "S", "S">>, "IP_ADDRESS">>,
      <<<<"D", "A", "T", "E", "_", "T", "I", "M", "E">>, "DATE">>,
      <<<<"U", "S", "_", "D", "R", "I", "V", "E", "R", "_", "L", "I", "C", "E", "N", "S", "E">>, "DRIVER_LICENSE">>,
      <<<<"U", "S", "_", "P", "A", "S", "S", "P", "O", "R", "T">>, "PASSPORT">>,
      <<<<"U", "S", "_", "B", "A", "N", "K", "_", "N", "U", "M", "B", "E", "R">>, "BANK_ACCOUNT">>,
      <<<<"I", "B", "A", "N", "_", "C", "O", "D", "E">>, "BANK_ACCOUNT">>
    >>

\* PresidioGuard._map_presidio_type: type_map.get(presidio_type, PIIType.CUSTOM)
PresidioGuard_map_presidio_type(s) == dict_get(PresidioGuard_type_map, s, "CUSTOM")

OpenAIGuard_type_map ==
    <<
      <<<<"n", "a", "m", "e">>, "NAME">>,
      <<<<"e", "m", "a", "i", "l">>, "EMAIL">>,
      <<<<"p", "h", "o", "n", "e">>, "PHONE">>,
      <<<<"a", "d", "d", "r", "e", "s", "s">>, "ADDRESS">>,
      <<<<"s", "s", "n">>, "SSN">>,
      <<<<"c", "r", "e", "d", "i", "t", "_", "c", "a", "r", "d">>, "CREDIT_CARD">>,
      <<<<"d", "a", "t", "e">>, "DATE">>,
      <<<<"i", "p", "_", "a", "d", "d", "r", "e", "s", "s">>, "IP_ADDRESS">>
    >>

\* OpenAIGuard._map_type: type_map.get(type_str.lower(), PIIType.CUSTOM)
OpenAIGuard_map_type(s) == dict_get(OpenAIGuard_type_map, str_lower(s), "CUSTOM")

-----------------------------------------------------------------------------
(* LlamaGuard._parse_response                                               *)

LlamaConfidence == 85

\* variants of the loop body with one slip each
LlamaGuard_item_unchecked(t, item) ==
    IF item.k # "dict" THEN Throw("AttributeError")
    ELSE LET ty == field_get(item.type, Str(<<>>)) IN
         IF ty.k # "str" THEN Throw("AttributeError")
         ELSE LET pii_type == LlamaGuard_map_type(ty.s)
                  value == field_get(item.value, Str(<<>>))
              IN IF value.k # "str" THEN Throw("TypeError")
                 ELSE LET start == str_find(t, value.s) IN
                      Emit(PIIMatch(pii_type, value.s, start,
                                    start + Len(value.s), LlamaConfidence))

LlamaGuard_item_skip_untyped(t, item) ==
    IF item.k # "dict" THEN Throw("AttributeError")
    ELSE IF item.type.k = "absent" THEN Skip
    ELSE LET ty == item.type IN
         IF ty.k # "str" THEN Throw("AttributeError")
         ELSE LET pii_type == LlamaGuard_map_type(ty.s)
                  value == field_get(item.value, Str(<<>>))
              IN IF value.k # "str" THEN Throw("TypeError")
                 ELSE LET start == str_find(t, value.s) IN
                      IF start >= 0
                      THEN Emit(PIIMatch(pii_type, value.s, start,
                                         start + Len(value.s), LlamaConfidence))
                      ELSE Skip

\* body of `for item in pii_list` (lines 89-101)
LlamaGuard_item(t, item) ==
    IF item.k # "dict" THEN Throw("AttributeError")            \* item.get
    ELSE LET ty == field_get(item.type, Str(<<>>)) IN
         IF ty.k # "str" THEN Throw("AttributeError")          \* type_str.lower()
         ELSE LET pii_type == LlamaGuard_map_type(ty.s)
                  value == field_get(item.value, Str(<<>>))
              IN IF value.k # "str" THEN Throw("TypeError")    \* text.find(value)
                 ELSE LET start == str_find(t, value.s) IN
                      IF start >= 0
                      THEN Emit(PIIMatch(pii_type, value.s, start,
                                         start + Len(value.s), LlamaConfidence))
                      ELSE Skip

\* the for loop: the first exception leaves the loop and the function
RECURSIVE LlamaGuard_loop(_, _, _)
LlamaGuard_loop(t, items, matches) ==
    IF items = <<>> THEN [exc |-> "none", matches |-> matches]
    ELSE LET o == LlamaGuard_item(t, Head(items)) IN
         IF o.exc # "none" THEN [exc |-> o.exc, matches |-> matches]
         ELSE LlamaGuard_loop(t, Tail(items),
                              IF o.emit THEN Append(matches, o.match) ELSE matches)

\* iterating the loaded value: a list gives its elements, an object its keys and a
\* string its characters (all str, which have no .get), anything else is not iterable
LlamaGuard_iterate(t, pii_list) ==
    CASE pii_list.k = "list" -> LlamaGuard_loop(t, pii_list.items, <<>>)
      [] pii_list.k = "dict" ->
            IF pii_list.pii.k = "absent" /\ pii_list.results.k = "absent" /\ pii_list.n = 0
            THEN [exc |-> "none", matches |-> <<>>]
            ELSE [exc |-> "AttributeError", matches |-> <<>>]
      [] pii_list.k = "str" ->
            IF pii_list.n = 0
            THEN [exc |-> "none", matches |-> <<>>]
            ELSE [exc |-> "AttributeError", matches |-> <<>>]
      [] OTHER -> [exc |-> "TypeError", matches |-> <<>>]

\* response.get("response", "[]")
LlamaGuard_content(resp) == IF resp.has THEN resp.content ELSE ListContent(<<>>)

\* a handler for KeyError alone
LlamaGuard_caught_KeyError_only == {"KeyError"}

\* except (json.JSONDecodeError, KeyError): pass
LlamaGuard_caught == {"JSONDecodeError", "KeyError"}

\* matches is filled in place, so what was appended before a caught exception stays
LlamaGuard_parse_response(slf, t, resp) ==
    LET loaded == json_loads(LlamaGuard_content(resp)) IN
    IF loaded.exc \in LlamaGuard_caught THEN Return(GuardResult(<<>>, resp, slf.model))
    ELSE IF loaded.exc # "none" THEN Raise(loaded.exc)
    ELSE LET r == LlamaGuard_iterate(t, loaded.val) IN
         IF r.exc \in LlamaGuard_caught
         THEN Return(GuardResult(r.matches, resp, slf.model))
         ELSE IF r.exc # "none" THEN Raise(r.exc)
         ELSE Return(GuardResult(r.matches, resp, slf.model))

-----------------------------------------------------------------------------
(* OpenAIGuard._parse_response                                              *)

OpenAIConfidence == 90

\* variant of the loop body whose computed end is one past the value
OpenAIGuard_item_end_past(t, item) ==
    IF item.k # "dict" THEN Throw("AttributeError")
    ELSE LET ty == field_get(item.type, Str(<<>>)) IN
         IF ty.k # "str" THEN Throw("AttributeError")
         ELSE LET pii_type == OpenAIGuard_map_type(ty.s)
                  value == field_get(item.value, Str(<<>>))
              IN IF value.k # "str" THEN Throw("TypeError")
                 ELSE LET start == field_get(item.start, Num(str_find(t, value.s))) IN
                      IF start.k # "num" THEN Throw("TypeError")
                      ELSE LET end == field_get(item.end,
                                        Num(IF start.n >= 0 THEN start.n + Len(value.s) + 1 ELSE 0))
                           IN IF value.s # <<>> /\ start.n >= 0
                              THEN Emit(PIIMatch(pii_type, value.s, start.n, end.n,
                                                 OpenAIConfidence))
                              ELSE Skip

\* body of `for item in pii_list` (lines 303-315); both .get defaults are evaluated
\* whether or not the key is present
OpenAIGuard_item(t, item) ==
    IF item.k # "dict" THEN Throw("AttributeError")            \* item.get
    ELSE LET ty == field_get(item.type, Str(<<>>)) IN
         IF ty.k # "str" THEN Throw("AttributeError")          \* type_str.lower()
         ELSE LET pii_type == OpenAIGuard_map_type(ty.s)
                  value == field_get(item.value, Str(<<>>))
              IN IF value.k # "str" THEN Throw("TypeError")    \* text.find(value)
                 ELSE LET start == field_get(item.start, Num(str_find(t, value.s))) IN
                      IF start.k # "num" THEN Throw("TypeError")   \* start >= 0
                      ELSE LET end == field_get(item.end,
                                        Num(IF start.n >= 0 THEN start.n + Len(value.s) ELSE 0))
                           IN IF value.s # <<>> /\ start.n >= 0
                              THEN Emit(PIIMatch(pii_type, value.s, start.n, end.n,
                                                 OpenAIConfidence))
                              ELSE Skip

RECURSIVE OpenAIGuard_loop(_, _, _)
OpenAIGuard_loop(t, items, matches) ==
    IF items = <<>> THEN [exc |-> "none", matches |-> matches]
    ELSE LET o == OpenAIGuard_item(t, Head(items)) IN
         IF o.exc # "none" THEN [exc |-> o.exc, matches |-> matches]
         ELSE OpenAIGuard_loop(t, Tail(items),
                               IF o.emit THEN Append(matches, o.match) ELSE matches)

\* content.get("pii", content.get("results", content)); only a dict has .get
OpenAIGuard_pii_list(content) ==
    IF content.pii.k # "absent" THEN content.pii
    ELSE IF content.results.k # "absent" THEN content.results
    ELSE [k |-> "dict", items |-> <<>>]

OpenAIGuard_body(t, content) ==
    IF content.k # "dict" THEN [exc |-> "AttributeError", matches |-> <<>>]
    ELSE LET pii_list == OpenAIGuard_pii_list(content) IN
         IF pii_list.k = "list" THEN OpenAIGuard_loop(t, pii_list.items, <<>>)
         ELSE [exc |-> "none", matches |-> <<>>]

\* raw_response={"content": response.choices[0].message.content}
OpenAIGuard_raw(resp) == [content |-> resp.content]

\* except (json.JSONDecodeError, KeyError): pass
OpenAIGuard_caught == {"JSONDecodeError", "KeyError"}

OpenAIGuard_parse_response(slf, t, resp) ==
    LET loaded == json_loads(resp.content) IN
    IF loaded.exc \in OpenAIGuard_caught
    THEN Return(GuardResult(<<>>, OpenAIGuard_raw(resp), slf.model))
    ELSE IF loaded.exc # "none" THEN Raise(loaded.exc)
    ELSE LET r == OpenAIGuard_body(t, loaded.val) IN
         IF r.exc \in OpenAIGuard_caught
         THEN Return(GuardResult(r.matches, OpenAIGuard_raw(resp), slf.model))
         ELSE IF r.exc # "none" THEN Raise(r.exc)
         ELSE Return(GuardResult(r.matches, OpenAIGuard_raw(resp), slf.model))

-----------------------------------------------------------------------------
(* BedrockGuard._parse_response                                             *)

BedrockConfidence == 95

\* a key holding a list, or missing
NoList == [has |-> FALSE, items |-> <<>>]
List(items) == [has |-> TRUE, items |-> items]

\* d.get(key, []) and d.get(key, {}).get(key2, [])
list_get(opt) == IF opt.has THEN opt.items ELSE <<>>

\* entity.get('type', 'UNKNOWN')
BedrockUnknown == Str(<<"U", "N", "K", "N", "O", "W", "N">>)

\* for entity in pii_entities (lines 165-175)
RECURSIVE BedrockGuard_entities(_, _)
BedrockGuard_entities(pii_entities, matches) ==
    IF pii_entities = <<>> THEN matches
    ELSE LET entity == Head(pii_entities)
             entity_type == field_get(entity.type, BedrockUnknown)
             pii_type == BedrockGuard_map_bedrock_type(entity_type.s)
         IN BedrockGuard_entities(
                Tail(pii_entities),
                Append(matches, PIIMatch(pii_type, field_get(entity.match, Str(<<>>)).s,
                                         0, 0, BedrockConfidence)))

\* for assessment in assessments (lines 161-163)
RECURSIVE BedrockGuard_assessments(_, _)
BedrockGuard_assessments(assessments, matches) ==
    IF assessments = <<>> THEN matches
    ELSE LET assessment == Head(assessments)
             sensitive_info == IF assessment.sip.has THEN assessment.sip.piiEntities ELSE NoList
             pii_entities == list_get(sensitive_info)
         IN BedrockGuard_assessments(Tail(assessments),
                                     BedrockGuard_entities(pii_entities, matches))

\* the outputs walked last to first
BedrockGuard_outputs_reversed(outputs, matches) ==
    LET F[i \in 0..Len(outputs)] ==
            IF i = 0 THEN matches
            ELSE BedrockGuard_assessments(list_get(outputs[Len(outputs) + 1 - i].assessments),
                                          F[i - 1])
    IN F[Len(outputs)]

\* for output in outputs (lines 159-160)
RECURSIVE BedrockGuard_outputs(_, _)
BedrockGuard_outputs(outputs, matches) ==
    IF outputs = <<>> THEN matches
    ELSE BedrockGuard_outputs(
             Tail(outputs),
             BedrockGuard_assessments(list_get(Head(outputs).assessments), matches))

BedrockGuard_parse_response(slf, t, resp) ==
    Return(GuardResult(BedrockGuard_outputs(list_get(resp.outputs), <<>>), resp,
                       "bedrock-guardrails"))

-----------------------------------------------------------------------------
(* PresidioGuard.detect                                                     *)

\* text[start:end] for 0 <= start <= end <= len(text), which is what the analyzer
\* reports: the span of a recognised entity inside the analysed text
slice(t, start, end) == SubSeq(t, start + 1, end)

\* for result in results (lines 217-225)
RECURSIVE PresidioGuard_loop(_, _, _)
PresidioGuard_loop(t, results, matches) ==
    IF results = <<>> THEN matches
    ELSE LET r == Head(results)
             pii_type == PresidioGuard_map_presidio_type(r.entity_type)
         IN PresidioGuard_loop(
                t, Tail(results),
                Append(matches, PIIMatch(pii_type, slice(t, r.start, r.end),
                                         r.start, r.end, r.score)))

\* `results` is what self.analyzer.analyze(text=text, language=self.language) returned
PresidioGuard_detect(slf, t, results) ==
    Return(GuardResult(PresidioGuard_loop(t, results, <<>>), None, "presidio"))

-----------------------------------------------------------------------------
(* get_guard                                                                *)

\* the providers dict (lines 354-362), key -> class its lambda constructs
providers ==
    <<
      <<<<"l", "l", "a", "m", "a">>, "LlamaGuard">>,
      <<<<"l", "l", "a", "m", "a", "-", "g", "u", "a", "r", "d">>, "LlamaGuard">>,
      <<<<"b", "e", "d", "r", "o", "c", "k">>, "BedrockGuard">>,
      <<<<"a", "w", "s">>, "BedrockGuard">>,
      <<<<"p", "r", "e", "s", "i", "d", "i", "o">>, "PresidioGuard">>,
      <<<<"o", "p", "e", "n", "a", "i">>, "OpenAIGuard">>,
      <<<<"g", "p", "t">>, "OpenAIGuard">>
    >>

\* if provider in ["regex", "none", ""]
NoGuardProviders == {<<"r", "e", "g", "e", "x">>, <<"n", "o", "n", "e">>, <<>>}

\* each class's __init__: its keyword parameters, the ones without a default, and
\* the client library its first statement imports
Constructors ==
    [LlamaGuard |-> [params |-> {"base_url", "model"}, required |-> {},
                     library |-> "httpx"],
     BedrockGuard |-> [params |-> {"guardrail_id", "guardrail_version", "region"},
                       required |-> {"guardrail_id"}, library |-> "boto3"],
     PresidioGuard |-> [params |-> {"language"}, required |-> {},
                        library |-> "presidio_analyzer"],
     OpenAIGuard |-> [params |-> {"api_key", "model"}, required |-> {},
                      library |-> "openai"]]

Libraries == {Constructors[c].library : c \in DOMAIN Constructors}

\* Cls(**kwargs): the arguments are bound, then the body imports its library
construct(cls, kw, libs) ==
    LET c == Constructors[cls] IN
    IF ~(kw \subseteq c.params) \/ ~(c.required \subseteq kw)
    THEN [outcome |-> Raise("TypeError"), imported |-> {}]
    ELSE IF c.library \notin libs
    THEN [outcome |-> Raise("ImportError"), imported |-> {c.library}]
    ELSE [outcome |-> Return([k |-> "guard", class |-> cls, kwargs |-> kw]),
          imported |-> {c.library}]

\* raise ValueError(f"Unknown guard provider: {provider}. Supported: {list(providers.keys())}")
ValueError(p) ==
    [raised |-> "ValueError",
     value |-> [unknown |-> p, supported |-> dict_keys(providers)]]

\* get_guard without provider = provider.lower()
get_guard_no_lower(p, kw, libs) ==
    IF p \in NoGuardProviders
    THEN [outcome |-> Return(None), imported |-> {}, constructed |-> {}]
    ELSE IF dict_get(providers, p, "") = ""
    THEN [outcome |-> ValueError(p), imported |-> {}, constructed |-> {}]
    ELSE LET cls == dict_get(providers, p, "")
             c == construct(cls, kw, libs)
         IN [outcome |-> c.outcome, imported |-> c.imported, constructed |-> {cls}]

get_guard(p, kw, libs) ==
    LET prov == str_lower(p) IN
    IF prov \in NoGuardProviders
    THEN [outcome |-> Return(None), imported |-> {}, constructed |-> {}]
    ELSE IF dict_get(providers, prov, "") = ""
    THEN [outcome |-> ValueError(prov), imported |-> {}, constructed |-> {}]
    ELSE LET cls == dict_get(providers, prov, "")
             c == construct(cls, kw, libs)
         IN [outcome |-> c.outcome, imported |-> c.imported, constructed |-> {cls}]

-----------------------------------------------------------------------------
(* Inputs                                                                   *)

TextAlphabet == {"a", "b"}
Texts == SeqsUpTo(TextAlphabet, MaxTextLen)

\* values a back end may claim: empty, one that can repeat, and a two-character one
Values == {<<>>, <<"a">>, <<"a", "b">>}

\* items without offsets: type missing or known, value missing or a string
PlainItems ==
    {Item(ty, v, Absent, Absent) :
        ty \in {Absent, Str(<<"n", "a", "m", "e">>)}, v \in {Absent} \cup {Str(x) : x \in Values}}

\* items whose fields have the wrong JSON type, and an element that is no object
MalformedItems ==
    {Item(Null, Str(<<"a">>), Absent, Absent),
     Item(Str(<<"n", "a", "m", "e">>), Null, Absent, Absent),
     Item(Str(<<"e", "m", "a", "i", "l">>), Str(<<"a">>), Null, Absent),
     NonDictItem}

\* items that carry offsets of their own: plausible, reversed, negative, past the end
OffsetItems ==
    {Item(Str(<<"e", "m", "a", "i", "l">>), Str(<<"a">>), Num(0), Num(1)),
     Item(Str(<<"e", "m", "a", "i", "l">>), Str(<<"a">>), Num(2), Num(1)),
     Item(Str(<<"e", "m", "a", "i", "l">>), Str(<<"a">>), Num(-1), Absent),
     Item(Str(<<"e", "m", "a", "i", "l">>), Str(<<"a">>), Num(1), Absent),
     Item(Str(<<"e", "m", "a", "i", "l">>), Str(<<"a">>), Absent, Num(7)),
     Item(Str(<<"e", "m", "a", "i", "l">>), Absent, Num(0), Num(1))}

Items == PlainItems \cup MalformedItems \cup OffsetItems
ItemLists == SeqsUpTo(Items, MaxItems)

\* the end-to-end scenario of the specification, and the same with a value that
\* occurs twice in the text
ExampleText == <<"C", "o", "n", "t", "a", "c", "t", " ", "J", "o", "h", "n", " ", "S", "m", "i", "t", "h", " ", "a", "t", " ", "j", "o", "h", "n", "@", "e", "x", "a", "m", "p", "l", "e", ".", "c", "o", "m">>
JohnSmith == <<"J", "o", "h", "n", " ", "S", "m", "i", "t", "h">>
JohnEmail == <<"j", "o", "h", "n", "@", "e", "x", "a", "m", "p", "l", "e", ".", "c", "o", "m">>
ExampleItems ==
    <<Item(Str(<<"n", "a", "m", "e">>), Str(JohnSmith), Absent, Absent),
      Item(Str(<<"e", "m", "a", "i", "l">>), Str(JohnEmail), Absent, Absent)>>
ExampleItemsRepeated == Append(ExampleItems, Item(Str(<<"z", "i", "p">>), Str(<<"h", "n">>), Absent, Absent))

\* contents that are not the list the local-model parser expects
OtherContents ==
    {ScalarContent("invalid", 0), ScalarContent("nonstr", 0), ScalarContent("num", 0),
     ScalarContent("null", 0), ScalarContent("str", 0), ScalarContent("str", 1),
     DictContent(NoSlot, NoSlot, 0), DictContent(NoSlot, NoSlot, 1),
     DictContent(ListSlot(<<>>), NoSlot, 0)}

LlamaResponse(has, content) == [has |-> has, content |-> content]
LlamaListResponses == {LlamaResponse(TRUE, ListContent(l)) : l \in ItemLists}
LlamaOtherResponses ==
    {LlamaResponse(FALSE, ScalarContent("null", 0))}
        \cup {LlamaResponse(TRUE, c) : c \in OtherContents}
LlamaExamples == {LlamaResponse(TRUE, ListContent(l)) : l \in {ExampleItems, ExampleItemsRepeated}}

OpenAIResponse(content) == [content |-> content]
OpenAIListResponses == {OpenAIResponse(DictContent(ListSlot(l), NoSlot, 0)) : l \in ItemLists}
OpenAIOtherResponses ==
    {OpenAIResponse(c) : c \in OtherContents}
        \cup {OpenAIResponse(DictContent(NoSlot, ListSlot(l), n)) :
                 l \in SeqsUpTo(PlainItems, 1), n \in {0, 1}}
        \cup {OpenAIResponse(DictContent(p, ListSlot(<<Item(Str(<<"n", "a", "m", "e">>), Str(<<"a">>), Absent, Absent)>>), 0)) :
                 p \in {NullSlot, ListSlot(<<>>)}}
        \cup {OpenAIResponse(ListContent(l)) : l \in SeqsUpTo(PlainItems, 1)}
OpenAIExamples ==
    {OpenAIResponse(DictContent(ListSlot(l), NoSlot, 0)) : l \in {ExampleItems, ExampleItemsRepeated}}

LlamaModels == {"llama-guard3", "llama-guard3:8b"}
OpenAIModels == {"gpt-4o-mini", "gpt-4o"}

\* what a guardrail reports about one entity
BedrockEntities ==
    {[type |-> Str(<<"N", "A", "M", "E">>), match |-> Str(<<"a">>)],
     [type |-> Str(<<"n", "a", "m", "e">>), match |-> Absent],
     [type |-> Absent, match |-> Str(<<"b">>)]}
BedrockAssessments ==
    {[sip |-> [has |-> FALSE, piiEntities |-> NoList]],
     [sip |-> [has |-> TRUE, piiEntities |-> NoList]],
     [sip |-> [has |-> TRUE, piiEntities |-> List(<<>>)]]}
BedrockOutputs == {[assessments |-> NoList], [assessments |-> List(<<>>)]}

\* outputs, assessments and entities of a guardrail response, counted
RECURSIVE AssessmentNodes(_)
AssessmentNodes(as) ==
    IF as = <<>> THEN 0
    ELSE 1 + Len(Head(as).sip.piiEntities.items) + AssessmentNodes(Tail(as))
RECURSIVE OutputNodes(_)
OutputNodes(os) ==
    IF os = <<>> THEN 0
    ELSE 1 + AssessmentNodes(Head(os).assessments.items) + OutputNodes(Tail(os))

\* what the analyzer reports: entities with their spans inside the analysed text
PresidioScores == {0, 100}
PresidioResults(t) ==
    {[entity_type |-> ty, start |-> s, end |-> e, score |-> sc] :
        ty \in {<<"P", "E", "R", "S", "O", "N">>, <<"p", "e", "r", "s", "o", "n">>}, s \in 0..Len(t), e \in 0..Len(t), sc \in PresidioScores}
PresidioSpans(t) == {r \in PresidioResults(t) : r.start <= r.end}

str_upper(s) ==
    [i \in 1..Len(s) |->
        IF \E j \in 1..Len(LowerCase) : LowerCase[j] = s[i]
        THEN UpperCase[CHOOSE j \in 1..Len(LowerCase) : LowerCase[j] = s[i]]
        ELSE s[i]]

TableKeys ==
    {LlamaGuard_type_map[i][1] : i \in 1..Len(LlamaGuard_type_map)}
        \cup {BedrockGuard_type_map[i][1] : i \in 1..Len(BedrockGuard_type_map)}
        \cup {PresidioGuard_type_map[i][1] : i \in 1..Len(PresidioGuard_type_map)}
        \cup {OpenAIGuard_type_map[i][1] : i \in 1..Len(OpenAIGuard_type_map)}

TypeStrings ==
    TableKeys \cup {str_lower(s) : s \in TableKeys} \cup {str_upper(s) : s \in TableKeys}
        \cup {<<>>, <<"z", "i", "p">>, <<"N", "a", "m", "e">>, <<"E", "m", "a", "i", "l">>, <<"n", "a", "m", "e", "s">>, <<"n", "a", "m">>, <<"U", "N", "K", "N", "O", "W", "N">>, <<"P", "e", "r", "s", "o", "n">>}

ProviderStrings ==
    {providers[i][1] : i \in 1..Len(providers)}
        \cup {str_upper(providers[i][1]) : i \in 1..Len(providers)}
        \cup NoGuardProviders \cup {str_upper(p) : p \in NoGuardProviders}
        \cup {<<"L", "l", "a", "m", "a", "-", "G", "u", "a", "r", "d">>, <<"O", "p", "e", "n", "A", "I">>, <<"R", "e", "g", "e", "x">>, <<"n", "o", "n", "e", "x", "i", "s", "t", "e", "n", "t", "-", "p", "r", "o", "v", "i", "d", "e", "r">>, <<"A", "z", "u", "r", "e">>, <<"l", "l", "a", "m", "a", "2">>}

KwargSets == {{}, {"model"}, {"guardrail_id"}, {"language"}, {"timeout"}}

-----------------------------------------------------------------------------
(* The state machine                                                        *)

NoSelf == [model |-> ""]

Idle ==
    /\ pc = "ready"
    /\ imported = {}
    /\ constructed = {}
    /\ result = None

InitLlama ==
    /\ call = "llama"
    /\ \/ self \in [model : LlamaModels] /\ text \in Texts /\ response \in LlamaOtherResponses
       \/ self = [model |-> "llama-guard3"] /\ text \in Texts /\ response \in LlamaListResponses
       \/ self = [model |-> "llama-guard3"] /\ text = ExampleText /\ response \in LlamaExamples
    /\ type_str = <<>> /\ provider = <<>> /\ kwargs = {} /\ installed = {}

InitOpenAI ==
    /\ call = "openai"
    /\ \/ self \in [model : OpenAIModels] /\ text \in Texts /\ response \in OpenAIOtherResponses
       \/ self = [model |-> "gpt-4o-mini"] /\ text \in Texts /\ response \in OpenAIListResponses
       \/ self = [model |-> "gpt-4o-mini"] /\ text = ExampleText /\ response \in OpenAIExamples
    /\ type_str = <<>> /\ provider = <<>> /\ kwargs = {} /\ installed = {}

InitBedrock ==
    /\ call = "bedrock"
    /\ self = NoSelf
    /\ text \in {<<>>, <<"a">>}
    /\ response \in {[outputs |-> NoList], [outputs |-> List(<<>>)]}
    /\ type_str = <<>> /\ provider = <<>> /\ kwargs = {} /\ installed = {}

InitPresidio ==
    /\ call = "presidio"
    /\ self = NoSelf
    /\ text \in Texts
    /\ response \in SeqsUpTo(PresidioSpans(text), MaxResults)
    /\ type_str = <<>> /\ provider = <<>> /\ kwargs = {} /\ installed = {}

InitMapType ==
    /\ call = "map_type"
    /\ self = NoSelf /\ text = <<>> /\ response = None
    /\ type_str \in TypeStrings
    /\ provider = <<>> /\ kwargs = {} /\ installed = {}

InitGetGuard ==
    /\ call = "get_guard"
    /\ self = NoSelf /\ text = <<>> /\ response = None /\ type_str = <<>>
    /\ provider \in ProviderStrings
    /\ kwargs \in KwargSets
    /\ installed \in SUBSET Libraries

Init ==
    /\ Idle
    /\ \/ InitLlama
       \/ InitOpenAI
       \/ InitBedrock
       \/ InitPresidio
       \/ InitMapType
       \/ InitGetGuard

Finish(op, r) ==
    /\ pc' = op
    /\ result' = r
    /\ UNCHANGED <<call, self, text, response, type_str, provider, kwargs, installed,
                   imported, constructed>>

LlamaParse ==
    /\ pc = "ready" /\ call = "llama"
    /\ Finish("LlamaGuard._parse_response", LlamaGuard_parse_response(self, text, response))

OpenAIParse ==
    /\ pc = "ready" /\ call = "openai"
    /\ Finish("OpenAIGuard._parse_response", OpenAIGuard_parse_response(self, text, response))

\* the guardrail service assembles its response: one more output, one more assessment
\* under the last output, one more entity under the last assessment
BedrockGrow(outputs) ==
    /\ OutputNodes(outputs) <= MaxNodes
    /\ response' = [outputs |-> List(outputs)]
    /\ UNCHANGED <<pc, call, self, text, type_str, provider, kwargs, installed,
                   imported, constructed, result>>

BedrockAddOutput ==
    /\ pc = "ready" /\ call = "bedrock" /\ response.outputs.has
    /\ \E o \in BedrockOutputs : BedrockGrow(Append(response.outputs.items, o))

BedrockAddAssessment ==
    /\ pc = "ready" /\ call = "bedrock"
    /\ LET os == response.outputs.items IN
       /\ os # <<>>
       /\ os[Len(os)].assessments.has
       /\ \E a \in BedrockAssessments :
            BedrockGrow([os EXCEPT ![Len(os)].assessments.items = Append(@, a)])

BedrockAddEntity ==
    /\ pc = "ready" /\ call = "bedrock"
    /\ LET os == response.outputs.items IN
       /\ os # <<>>
       /\ LET as == os[Len(os)].assessments.items IN
          /\ as # <<>>
          /\ as[Len(as)].sip.has
          /\ as[Len(as)].sip.piiEntities.has
          /\ \E e \in BedrockEntities :
               BedrockGrow([os EXCEPT ![Len(os)].assessments.items[Len(as)]
                                          .sip.piiEntities.items = Append(@, e)])

BedrockParse ==
    /\ pc = "ready" /\ call = "bedrock"
    /\ Finish("BedrockGuard._parse_response", BedrockGuard_parse_response(self, text, response))

PresidioDetect ==
    /\ pc = "ready" /\ call = "presidio"
    /\ Finish("PresidioGuard.detect", PresidioGuard_detect(self, text, response))

LlamaMapType ==
    /\ pc = "ready" /\ call = "map_type"
    /\ Finish("LlamaGuard._map_type", Return(LlamaGuard_map_type(type_str)))

BedrockMapType ==
    /\ pc = "ready" /\ call = "map_type"
    /\ Finish("BedrockGuard._map_bedrock_type", Return(BedrockGuard_map_bedrock_type(type_str)))

PresidioMapType ==
    /\ pc = "ready" /\ call = "map_type"
    /\ Finish("PresidioGuard._map_presidio_type",
              Return(PresidioGuard_map_presidio_type(type_str)))

OpenAIMapType ==
    /\ pc = "ready" /\ call = "map_type"
    /\ Finish("OpenAIGuard._map_type", Return(OpenAIGuard_map_type(type_str)))

GetGuard ==
    /\ pc = "ready" /\ call = "get_guard"
    /\ LET g == get_guard(provider, kwargs, installed) IN
       /\ pc' = "get_guard"
       /\ result' = g.outcome
       /\ imported' = g.imported
       /\ constructed' = g.constructed
    /\ UNCHANGED <<call, self, text, response, type_str, provider, kwargs, installed>>

Next ==
    \/ LlamaParse
    \/ OpenAIParse
    \/ BedrockAddOutput
    \/ BedrockAddAssessment
    \/ BedrockAddEntity
    \/ BedrockParse
    \/ PresidioDetect
    \/ LlamaMapType
    \/ BedrockMapType
    \/ PresidioMapType
    \/ OpenAIMapType
    \/ GetGuard

Spec == Init /\ [][Next]_vars

-----------------------------------------------------------------------------
(* Vocabulary of the properties                                             *)

LlamaDone == pc = "LlamaGuard._parse_response"
OpenAIDone == pc = "OpenAIGuard._parse_response"
BedrockDone == pc = "BedrockGuard._parse_response"
PresidioDone == pc = "PresidioGuard.detect"
JsonParserDone == LlamaDone \/ OpenAIDone
ParserDone == LlamaDone \/ OpenAIDone \/ BedrockDone \/ PresidioDone
Returned == result.raised = "none"

\* the list of PII items the payload carries under the key the parser reads
PayloadItems ==
    IF call = "llama"
    THEN IF response.has /\ response.content.k = "list" THEN response.content.items ELSE <<>>
    ELSE IF response.content.k # "dict" THEN <<>>
    ELSE IF response.content.pii.k = "list" THEN response.content.pii.items
    ELSE IF response.content.pii.k = "absent" /\ response.content.results.k = "list"
    THEN response.content.results.items
    ELSE <<>>

OccursAt(v, t, i) == i + Len(v) <= Len(t) /\ SubSeq(t, i + 1, i + Len(v)) = v
Occurs(v, t) == \E i \in 0..Len(t) : OccursAt(v, t, i)
Leftmost(v, t) ==
    CHOOSE i \in 0..Len(t) : OccursAt(v, t, i) /\ \A j \in 0..(i - 1) : ~OccursAt(v, t, j)
Occurrences(v, t) == Cardinality({i \in 0..Len(t) : OccursAt(v, t, i)})

NoOffsets(item) == item.start.k = "absent" /\ item.end.k = "absent"
HasValue(item, v) == item.k = "dict" /\ item.value = Str(v)
\* type and value are strings, the value is not empty and is found in the text
WellFormed(item, t) ==
    /\ item.k = "dict"
    /\ item.type.k = "str"
    /\ item.value.k = "str" /\ item.value.s # <<>> /\ Occurs(item.value.s, t)
    /\ NoOffsets(item)
\* an object whose value is missing or the empty string
ValueMissing(item) ==
    /\ item.k = "dict"
    /\ item.type.k = "str"
    /\ item.value \in {Absent, Str(<<>>)}
    /\ NoOffsets(item)
TypeMissing(item) == item.k = "dict" /\ item.type.k = "absent"

MatchesWithValue(v) ==
    Cardinality({i \in 1..Len(result.value.matches) : result.value.matches[i].value = v})
ValidSpan(m, t) == 0 <= m.start /\ m.start <= m.end /\ m.end <= Len(t)

-----------------------------------------------------------------------------
(* C1: the two JSON parsers return a GuardResult for every payload of a     *)
(* successful call, whatever JSON the content holds; they never raise.      *)
C1_ParsersNeverRaise == JsonParserDone => Returned

(* C2: a list of one well-formed item and one item whose value is missing   *)
(* or empty, in either order, yields exactly one record, the well-formed    *)
(* item's, and no exception.                                                *)
C2_OneRecordForOneGoodItem ==
    (JsonParserDone /\ Len(PayloadItems) = 2) =>
        \A i \in 1..2 :
            (WellFormed(PayloadItems[i], text) /\ ValueMissing(PayloadItems[3 - i])) =>
                /\ Returned
                /\ Len(result.value.matches) = 1
                /\ result.value.matches[1].value = PayloadItems[i].value.s

(* C3 as stated: no record is emitted for an item whose value does not      *)
(* occur in the text, so every emitted record's value occurs in the text.   *)
C3_NoRecordForAbsentValue ==
    (JsonParserDone /\ Returned) =>
        \A i \in 1..Len(result.value.matches) : Occurs(result.value.matches[i].value, text)

(* C3 amended: an item whose value does not occur in the text yields no     *)
(* record unless it supplies a start offset of its own to the hosted-LLM    *)
(* parser: the local-model parser emits no record with such a value, and    *)
(* the hosted-LLM parser at most one per item that carries a start offset.  *)
C3_NoRecordForAbsentValueWithoutStart ==
    (JsonParserDone /\ Returned) =>
        \A i \in 1..Len(result.value.matches) :
            LET v == result.value.matches[i].value IN
            ~Occurs(v, text) =>
                /\ OpenAIDone
                /\ MatchesWithValue(v) <=
                     Cardinality({j \in 1..Len(PayloadItems) :
                                     /\ HasValue(PayloadItems[j], v)
                                     /\ PayloadItems[j].start.k = "num"})

C3_Witness ==
    /\ OpenAIDone /\ Returned
    /\ Len(result.value.matches) = 1
    /\ \E j \in 1..Len(PayloadItems) :
         /\ PayloadItems[j].k = "dict"
         /\ PayloadItems[j].value.k = "str"
         /\ ~Occurs(PayloadItems[j].value.s, text)
         /\ NoOffsets(PayloadItems[j])

(* C4 as stated: every record of every result of the four parsers has       *)
(* 0 <= start <= end <= len(text).                                          *)
C4_SpansWithinText ==
    (ParserDone /\ Returned) =>
        \A i \in 1..Len(result.value.matches) : ValidSpan(result.value.matches[i], text)

(* C4 amended: every record of the local-model and managed-cloud parsers,   *)
(* every local-analyzer record (it copies the span the analyzer found in    *)
(* the text) and every hosted-LLM record of an item that supplies neither   *)
(* start nor end has 0 <= start <= end <= len(text); a hosted-LLM item that *)
(* supplies a start or an end has it copied into the record unvalidated.    *)
C4_ComputedSpansWithinText ==
    (ParserDone /\ Returned) =>
        \A i \in 1..Len(result.value.matches) :
            LET m == result.value.matches[i] IN
            \/ ValidSpan(m, text)
            \/ /\ OpenAIDone
               /\ \E j \in 1..Len(PayloadItems) :
                    HasValue(PayloadItems[j], m.value) /\ ~NoOffsets(PayloadItems[j])

C4_Witness ==
    /\ OpenAIDone /\ Returned
    /\ Len(result.value.matches) = 2
    /\ \A j \in 1..Len(PayloadItems) : NoOffsets(PayloadItems[j])
    /\ result.value.matches[2].start > 0
    /\ result.value.matches[2].end = Len(text)

(* C5: a non-empty value without offsets that occurs in the text gets a     *)
(* record at its leftmost occurrence: start is the first index, end is      *)
(* start + len(value), text[start:end] is the value; the example text gives *)
(* (8, 18) for "John Smith" and (22, 38) for "john@example.com".            *)
C5_FirstOccurrence ==
    (JsonParserDone /\ Returned) =>
        /\ \A j \in 1..Len(PayloadItems) :
             LET item == PayloadItems[j] IN
             (item.k = "dict" /\ item.value.k = "str" /\ item.value.s # <<>>
                /\ NoOffsets(item) /\ Occurs(item.value.s, text)) =>
                 \E i \in 1..Len(result.value.matches) :
                     LET m == result.value.matches[i] IN
                     /\ m.value = item.value.s
                     /\ m.start = Leftmost(m.value, text)
                     /\ m.end = m.start + Len(m.value)
                     /\ SubSeq(text, m.start + 1, m.end) = m.value
        /\ (\A j \in 1..Len(PayloadItems) : NoOffsets(PayloadItems[j])) =>
             \A i \in 1..Len(result.value.matches) :
                 LET m == result.value.matches[i] IN
                 /\ m.start = Leftmost(m.value, text)
                 /\ m.end = m.start + Len(m.value)
        /\ (text = ExampleText /\ \A j \in 1..2 : PayloadItems[j] = ExampleItems[j]) =>
             /\ result.value.matches[1].pii_type = "NAME"
             /\ result.value.matches[1].value = JohnSmith
             /\ result.value.matches[1].start = 8 /\ result.value.matches[1].end = 18
             /\ result.value.matches[2].pii_type = "EMAIL"
             /\ result.value.matches[2].value = JohnEmail
             /\ result.value.matches[2].start = 22 /\ result.value.matches[2].end = 38

C5_Witness ==
    /\ JsonParserDone /\ Returned
    /\ text = ExampleText
    /\ Len(result.value.matches) = 3
    /\ result.value.matches[1].start = 8 /\ result.value.matches[1].end = 18
    /\ result.value.matches[2].start = 22 /\ result.value.matches[2].end = 38
    /\ Occurrences(result.value.matches[3].value, text) = 2
    /\ result.value.matches[3].start = 10 /\ result.value.matches[3].end = 12

-----------------------------------------------------------------------------
MapTypeDone ==
    pc \in {"LlamaGuard._map_type", "BedrockGuard._map_bedrock_type",
            "PresidioGuard._map_presidio_type", "OpenAIGuard._map_type"}

\* the table of the function that has just been applied
TableOf(op) ==
    CASE op = "LlamaGuard._map_type" -> LlamaGuard_type_map
      [] op = "BedrockGuard._map_bedrock_type" -> BedrockGuard_type_map
      [] op = "PresidioGuard._map_presidio_type" -> PresidioGuard_type_map
      [] op = "OpenAIGuard._map_type" -> OpenAIGuard_type_map

CaseInsensitive(op) == op \in {"LlamaGuard._map_type", "OpenAIGuard._map_type"}

\* s and k are the same string up to the case of their letters
SameFolded(s, k) ==
    /\ Len(s) = Len(k)
    /\ \A i \in 1..Len(s) : char_lower(s[i]) = char_lower(k[i])

(* C6: each of the four mapping functions returns, for every type string,   *)
(* exactly one member of PIIType and never fails: the entry of its table    *)
(* for a string in the table, CUSTOM for every other string (the empty one  *)
(* included); the two free-text back ends look the string up whatever the   *)
(* case of its letters, Bedrock and Presidio only as written.               *)
C6_MapTypeTotal ==
    MapTypeDone =>
        LET table == TableOf(pc)
            hits == IF CaseInsensitive(pc)
                    THEN {i \in 1..Len(table) : SameFolded(type_str, table[i][1])}
                    ELSE {i \in 1..Len(table) : type_str = table[i][1]}
        IN /\ Returned
           /\ result.value \in PIIType
           /\ hits = {} => result.value = "CUSTOM"
           /\ \A i \in hits : result.value = table[i][2]
           /\ type_str = <<>> => result.value = "CUSTOM"

C6_Witness ==
    /\ pc = "LlamaGuard._map_type"
    /\ type_str = <<"S", "O", "C", "I", "A", "L", "_", "S", "E", "C", "U", "R", "I", "T", "Y">>
    /\ result = Return("SSN")

-----------------------------------------------------------------------------
GetGuardDone == pc = "get_guard"

\* the backend family each registered identifier stands for, and its client library
FamilyOf(p) ==
    CASE p \in {<<"l", "l", "a", "m", "a">>, <<"l", "l", "a", "m", "a", "-", "g", "u", "a", "r", "d">>} -> "LlamaGuard"
      [] p \in {<<"b", "e", "d", "r", "o", "c", "k">>, <<"a", "w", "s">>} -> "BedrockGuard"
      [] p = <<"p", "r", "e", "s", "i", "d", "i", "o">> -> "PresidioGuard"
      [] p \in {<<"o", "p", "e", "n", "a", "i">>, <<"g", "p", "t">>} -> "OpenAIGuard"
      [] OTHER -> "none"

LibraryOf(family) ==
    CASE family = "LlamaGuard" -> "httpx"
      [] family = "BedrockGuard" -> "boto3"
      [] family = "PresidioGuard" -> "presidio_analyzer"
      [] family = "OpenAIGuard" -> "openai"

RegisteredIdentifiers ==
    <<<<"l", "l", "a", "m", "a">>, <<"l", "l", "a", "m", "a", "-", "g", "u", "a", "r", "d">>, <<"b", "e", "d", "r", "o", "c", "k">>, <<"a", "w", "s">>, <<"p", "r", "e", "s", "i", "d", "i", "o">>, <<"o", "p", "e", "n", "a", "i">>, <<"g", "p", "t">>>>

(* C7: get_guard, comparing the identifier after lower-casing, ends in      *)
(* exactly one of three ways: "regex", "none" and "" return None and        *)
(* construct nothing; a registered identifier calls the constructor of its  *)
(* family and of no other, importing no other family's library, and a       *)
(* guard it returns is of that family; any other identifier raises a        *)
(* ValueError that names it and lists the seven registered identifiers.     *)
C7_GetGuardPartition ==
    GetGuardDone =>
        LET p == str_lower(provider) IN
        /\ p \in {<<"r", "e", "g", "e", "x">>, <<"n", "o", "n", "e">>, <<>>} =>
             /\ result = Return(None)
             /\ constructed = {} /\ imported = {}
        /\ FamilyOf(p) # "none" =>
             /\ constructed = {FamilyOf(p)}
             /\ imported \subseteq {LibraryOf(FamilyOf(p))}
             /\ result.raised # "ValueError"
             /\ Returned => (result.value.k = "guard" /\ result.value.class = FamilyOf(p))
        /\ (p \notin {<<"r", "e", "g", "e", "x">>, <<"n", "o", "n", "e">>, <<>>} /\ FamilyOf(p) = "none") =>
             /\ result.raised = "ValueError"
             /\ result.value.unknown = p
             /\ result.value.supported = RegisteredIdentifiers
             /\ constructed = {} /\ imported = {}

C7_Witness ==
    /\ GetGuardDone
    /\ provider = <<"L", "l", "a", "m", "a", "-", "G", "u", "a", "r", "d">>
    /\ Returned
    /\ result.value.class = "LlamaGuard"
    /\ imported = {"httpx"}

-----------------------------------------------------------------------------
(* C8: when the content is not parseable as JSON, or the expected key is    *)
(* absent from the payload, each JSON parser returns a GuardResult whose    *)
(* matches list is present and empty, stamped with the raw payload and the  *)
(* configured model, and raises nothing.                                    *)
C8_UnparseableGivesEmptyResult ==
    /\ (LlamaDone /\ (~response.has \/ response.content.k = "invalid")) =>
         result = Return(GuardResult(<<>>, response, self.model))
    /\ (OpenAIDone /\ (\/ response.content.k = "invalid"
                       \/ /\ response.content.k = "dict"
                          /\ response.content.pii.k = "absent"
                          /\ response.content.results.k = "absent")) =>
         result = Return(GuardResult(<<>>, [content |-> response.content], self.model))

C8_Witness ==
    /\ LlamaDone
    /\ response.has /\ response.content.k = "invalid"
    /\ text # <<>>
    /\ self.model = "llama-guard3:8b"
    /\ Returned
    /\ result.value.matches = <<>>

-----------------------------------------------------------------------------
(* C9 as stated: an item without a type field is skipped, so a payload's    *)
(* records are at most those of its items that have a type.                 *)
C9_UntypedItemSkipped ==
    (JsonParserDone /\ Returned) =>
        \A i \in 1..Len(result.value.matches) :
            LET v == result.value.matches[i].value IN
            MatchesWithValue(v) <=
                Cardinality({j \in 1..Len(PayloadItems) :
                                /\ PayloadItems[j].k = "dict"
                                /\ field_get(PayloadItems[j].value, Str(<<>>)) = Str(v)
                                /\ ~TypeMissing(PayloadItems[j])})

(* C9 amended: each item of the list is processed independently, and an     *)
(* item without a type field is not skipped but given the category CUSTOM:  *)
(* when its value is a non-empty string found in the text and it carries no *)
(* offsets it yields a record with category CUSTOM, and in every result the *)
(* parser returns the other items still have their records, a well-formed   *)
(* item with type "name" one with category NAME.                            *)
C9_UntypedItemIsCustom ==
    (JsonParserDone /\ Returned) =>
        \A j \in 1..Len(PayloadItems) :
            LET item == PayloadItems[j] IN
            /\ (TypeMissing(item) /\ item.value.k = "str" /\ item.value.s # <<>>
                  /\ Occurs(item.value.s, text) /\ NoOffsets(item)) =>
                   \E i \in 1..Len(result.value.matches) :
                       /\ result.value.matches[i].value = item.value.s
                       /\ result.value.matches[i].pii_type = "CUSTOM"
            /\ (WellFormed(item, text) /\ item.type = Str(<<"n", "a", "m", "e">>)) =>
                   \E i \in 1..Len(result.value.matches) :
                       /\ result.value.matches[i].value = item.value.s
                       /\ result.value.matches[i].pii_type = "NAME"

C9_Witness ==
    /\ JsonParserDone /\ Returned
    /\ Len(PayloadItems) = 2
    /\ TypeMissing(PayloadItems[1])
    /\ WellFormed(PayloadItems[2], text) /\ PayloadItems[2].type = Str(<<"n", "a", "m", "e">>)
    /\ Len(result.value.matches) = 2
    /\ result.value.matches[1].pii_type = "CUSTOM"
    /\ result.value.matches[2].pii_type = "NAME"

-----------------------------------------------------------------------------
RECURSIVE Concat(_)
Concat(ss) == IF ss = <<>> THEN <<>> ELSE Head(ss) \o Concat(Tail(ss))

\* the entities of a guardrail response in the order the payload lists them
EntitiesOfAssessment(a) ==
    IF a.sip.has /\ a.sip.piiEntities.has THEN a.sip.piiEntities.items ELSE <<>>
EntitiesOfOutput(o) ==
    IF o.assessments.has
    THEN Concat([j \in 1..Len(o.assessments.items) |->
                    EntitiesOfAssessment(o.assessments.items[j])])
    ELSE <<>>
EntitiesOfResponse(r) ==
    IF r.outputs.has
    THEN Concat([i \in 1..Len(r.outputs.items) |-> EntitiesOfOutput(r.outputs.items[i])])
    ELSE <<>>

(* C10: the managed-cloud parser never fails on a payload of the expected   *)
(* shape and emits exactly one record per entity under                      *)
(* outputs[].assessments[].sensitiveInformationPolicy.piiEntities[], in the *)
(* payload's order, each with start = 0 and end = 0; a missing key at any   *)
(* level contributes no entities, a missing type gives CUSTOM and a missing *)
(* match the empty value.                                                   *)
C10_BedrockOneRecordPerEntity ==
    BedrockDone =>
        LET es == EntitiesOfResponse(response) IN
        /\ Returned
        /\ result.value.raw_response = response
        /\ result.value.model_used = "bedrock-guardrails"
        /\ Len(result.value.matches) = Len(es)
        /\ \A i \in 1..Len(es) :
             LET m == result.value.matches[i] IN
             /\ m.start = 0 /\ m.end = 0
             /\ m.value = (IF es[i].match.k = "absent" THEN <<>> ELSE es[i].match.s)
             /\ m.pii_type = (IF es[i].type = Str(<<"N", "A", "M", "E">>) THEN "NAME" ELSE "CUSTOM")

C10_Witness ==
    /\ BedrockDone /\ Returned
    /\ Len(response.outputs.items) = 2
    /\ Len(result.value.matches) = 2
    /\ result.value.matches[1].pii_type = "NAME"
    /\ result.value.matches[2].value = <<"b">>
    /\ EntitiesOfOutput(response.outputs.items[1]) # <<>>
    /\ EntitiesOfOutput(response.outputs.items[2]) # <<>>

====
